---- MODULE Spec2Model ----
(***************************************************************************)
(* Model of the audio pre-processing scripts pre_process_1.py and          *)
(* pre_process_2.py: the numeric helpers (pre_emphasis, compute_lsf,       *)
(* compute_cqcc, the fundamental-period filter) as operators over an       *)
(* IEEE-like value domain, and the two batch loops (turn,                  *)
(* process_audio_directory) as state machines over a directory listing.    *)
(***************************************************************************)
EXTENDS Integers, Sequences, FiniteSets, TLC

VARIABLES
    fn,       \* the function under analysis ("batch" for the directory loops)
    arg,      \* the arguments of the call under analysis
    ret,      \* its result, or Pending before the call
    prog,     \* which script runs: "turn" or "process_audio_directory"
    listing,  \* os.listdir(input_directory): a sequence of file names
    idx,      \* position of the for loop in listing (next entry to visit)
    status,   \* "running", "done" (loop ended) or "aborted" (uncaught exception)
    log,      \* lines printed so far: records [clip, msg]
    calls,    \* functions invoked so far: records [clip, fn, ret]
    outputs,  \* files written so far: records [path, clip]
    env       \* which library outcomes the input files can produce

vars == <<fn, arg, ret, prog, listing, idx, status, log, calls, outputs, env>>

(***************************************************************************)
(* Bounds of the model.                                                    *)
(***************************************************************************)
MaxLen == 3        \* longest sample sequence given to pre_emphasis
MaxSample == 1     \* finite samples range over -MaxSample..MaxSample
MaxCoeff == 1      \* pre-emphasis coefficients k/2, k in 0..MaxCoeff+1
MaxLpc == 1        \* fitted LPC coefficients range over 0..MaxLpc
RootMax == 2       \* root grid: numerators -RootMax..RootMax
RootDen == 2       \* root grid: denominator
MaxCq == 3         \* entries of a cepstral array
MaxCep == 2        \* cepstral values range over -MaxCep..MaxCep
MaxFrames == 2     \* analysis frames of the pitch tracker
MaxClipLen == 1    \* samples of a clip in the batch model
MaxClips == 2      \* files in the input directory
MaxName == 4       \* tokens of a file name in the output-path model

(***************************************************************************)
(* Program constants.                                                      *)
(***************************************************************************)
DefaultOrder == 10   \* compute_lsf(audio_data, sample_rate, order=10)
LpcOrder == 12       \* librosa.lpc(audio_data, order=12)

(***************************************************************************)
(* Floating-point values: a finite rational n/d (d > 0), an infinity       *)
(* (n = 1 or -1) or NaN, with IEEE-754 arithmetic on the special values.   *)
(***************************************************************************)
Rat(n, d) == [k |-> "fin", n |-> n, d |-> d]
NaN == [k |-> "nan", n |-> 0, d |-> 1]
PInf == [k |-> "inf", n |-> 1, d |-> 1]
NInf == [k |-> "inf", n |-> -1, d |-> 1]
Zero == Rat(0, 1)
One == Rat(1, 1)

isnan(x) == x.k = "nan"
isinf(x) == x.k = "inf"
isfinite(x) == x.k = "fin"

Sign(x) == IF x.n > 0 THEN 1 ELSE IF x.n < 0 THEN -1 ELSE 0

Neg(x) == IF isnan(x) THEN NaN ELSE [x EXCEPT !.n = -x.n]

Abs(x) == IF Sign(x) < 0 THEN Neg(x) ELSE x

Inf(s) == IF s > 0 THEN PInf ELSE NInf

Add(x, y) ==
    IF isnan(x) \/ isnan(y) THEN NaN
    ELSE IF isfinite(x) /\ isfinite(y) THEN Rat(x.n * y.d + y.n * x.d, x.d * y.d)
    ELSE IF isinf(x) /\ isinf(y) THEN (IF x.n = y.n THEN x ELSE NaN)
    ELSE IF isinf(x) THEN x ELSE y

Sub(x, y) == Add(x, Neg(y))

Mul(x, y) ==
    IF isnan(x) \/ isnan(y) THEN NaN
    ELSE IF isfinite(x) /\ isfinite(y) THEN Rat(x.n * y.n, x.d * y.d)
    ELSE IF Sign(x) = 0 \/ Sign(y) = 0 THEN NaN
    ELSE Inf(Sign(x) * Sign(y))

Recip(x) ==
    IF isnan(x) THEN NaN
    ELSE IF isinf(x) THEN Zero
    ELSE IF x.n = 0 THEN PInf
    ELSE IF x.n > 0 THEN Rat(x.d, x.n) ELSE Rat(-x.d, -x.n)

Div(x, y) == Mul(x, Recip(y))

\* Comparisons are false whenever an operand is NaN.
Lt(x, y) ==
    IF isnan(x) \/ isnan(y) THEN FALSE
    ELSE IF isfinite(x) /\ isfinite(y) THEN x.n * y.d < y.n * x.d
    ELSE IF isinf(x) /\ isinf(y) THEN x.n < y.n
    ELSE IF isinf(x) THEN x.n < 0 ELSE y.n > 0

Eq(x, y) ==
    IF isnan(x) \/ isnan(y) THEN FALSE
    ELSE IF isfinite(x) /\ isfinite(y) THEN x.n * y.d = y.n * x.d
    ELSE x.k = y.k /\ x.n = y.n

Le(x, y) == Lt(x, y) \/ Eq(x, y)

SeqsUpTo(S, n) == UNION {[1..m -> S] : m \in 0..n}

Pending == [state |-> "pending"]

\* A Python exception leaving the function.
Raise(e) == [state |-> "raised", exc |-> e]

Return(v) == [state |-> "returned", val |-> v]

(***************************************************************************)
(* pre_process_2.py: pre_emphasis                                          *)
(***************************************************************************)
\* np.append(audio_data[0], audio_data[1:] - coeff * audio_data[:-1]);
\* audio_data[0] raises IndexError on an empty array.
pre_emphasis(audio_data, coeff) ==
    IF Len(audio_data) = 0 THEN Raise("IndexError")
    ELSE Return(<<audio_data[1]>> \o
                [i \in 1..(Len(audio_data) - 1) |->
                    Sub(audio_data[i + 1], Mul(coeff, audio_data[i]))])

SampleVals == {Rat(n, 1) : n \in -MaxSample..MaxSample} \cup {NaN, PInf}

CoeffVals == {Rat(k, 2) : k \in 0..(MaxCoeff + 1)}

InitPre ==
    /\ fn = "pre_emphasis"
    /\ arg \in {[audio_data |-> x, coeff |-> c] :
                    x \in SeqsUpTo(SampleVals, MaxLen), c \in CoeffVals}
    /\ ret = Pending
    /\ prog = "none" /\ listing = <<>> /\ idx = 1 /\ status = "done"
    /\ log = <<>> /\ calls = <<>> /\ outputs = {} /\ env = "none"

CallPreEmphasis ==
    /\ fn = "pre_emphasis" /\ ret = Pending
    /\ ret' = pre_emphasis(arg.audio_data, arg.coeff)
    /\ UNCHANGED <<fn, arg, prog, listing, idx, status, log, calls, outputs, env>>

SpecPre == InitPre /\ [][CallPreEmphasis]_vars

\* C5: for every input of pre_emphasis, the empty and the one-sample sequence
\* included, the call returns y with len(y) = len(x), y[0] = x[0] and
\* y[i] = x[i] - coeff * x[i-1] for every i >= 1.
C5_PreEmphasisTotal ==
    (fn = "pre_emphasis" /\ ret # Pending) =>
        /\ ret.state = "returned"
        /\ Len(ret.val) = Len(arg.audio_data)
        /\ \A i \in 1..Len(arg.audio_data) :
              ret.val[i] = IF i = 1 THEN arg.audio_data[1]
                           ELSE Sub(arg.audio_data[i],
                                    Mul(arg.coeff, arg.audio_data[i - 1]))

(***************************************************************************)
(* pre_process_2.py: compute_lsf                                           *)
(***************************************************************************)
\* A complex number; np.roots yields one per root.
Complex(re, im) == [re |-> re, im |-> im]

c_isnan(z) == isnan(z.re) \/ isnan(z.im)
c_isinf(z) == isinf(z.re) \/ isinf(z.im)

\* np.abs(z) < 1, decided on the squared modulus.
AbsLtOne(z) == Lt(Add(Mul(z.re, z.re), Mul(z.im, z.im)), One)

\* np.angle(z) = atan2(im, re), in units of pi: exact on the axes and the
\* diagonals, interpolated linearly in the tangent inside each octant.
\* The range is (-1, 1]; a negative real number has angle 1 (pi).
FirstQuadrant(ar, ai) ==
    IF Sign(ai) = 0 THEN Zero
    ELSE IF Sign(ar) = 0 THEN Rat(1, 2)
    ELSE IF Le(ai, ar) THEN Div(Div(ai, ar), Rat(4, 1))
    ELSE Sub(Rat(1, 2), Div(Div(ar, ai), Rat(4, 1)))

np_angle(z) ==
    LET base == FirstQuadrant(Abs(z.re), Abs(z.im))
        q == IF Sign(z.re) >= 0 THEN base ELSE Sub(One, base)
    IN  IF Sign(z.im) < 0 THEN Neg(q) ELSE q

\* np.sort: ascending (insertion sort on a sequence of finite values).
RECURSIVE Insert(_, _)
Insert(s, x) ==
    IF s = <<>> THEN <<x>>
    ELSE IF Le(x, Head(s)) THEN <<x>> \o s
    ELSE <<Head(s)>> \o Insert(Tail(s), x)

\* Mutant of np_sort: the angles are returned in root order.
Unsorted(s) == s

RECURSIVE np_sort(_)
np_sort(s) == IF s = <<>> THEN <<>> ELSE Insert(np_sort(Tail(s)), Head(s))

\* roots[np.abs(roots) < 1]: a boolean mask keeps the order.
StableRoots(roots) == SelectSeq(roots, AbsLtOne)

\* p = np.append(1, -lpc_coeffs)
Polynomial(lpc_coeffs) == <<One>> \o [i \in 1..Len(lpc_coeffs) |-> Neg(lpc_coeffs[i])]

\* librosa.lpc(y, order): order + 1 coefficients, the first fixed to 1; a
\* bounded family of fits, ill-conditioned (non-finite) ones included.
librosa_lpc(order) ==
    {<<One>> \o [i \in 1..order |-> Rat(v, 1)] : v \in 0..MaxLpc}
    \cup {<<One>> \o [i \in 1..order |-> IF i = j THEN bad ELSE Zero] :
              j \in {1, order}, bad \in {NaN, PInf, NInf}}

\* np.roots(p): len(p) - 1 roots (p[0] = 1 is never stripped); a bounded
\* family of outcomes: r1 on the first k places, r2 on the others.
np_roots(p, vals, splits) ==
    {[i \in 1..(Len(p) - 1) |-> IF i <= k THEN r1 ELSE r2] :
        r1 \in vals, r2 \in vals, k \in splits \cap (0..(Len(p) - 1))}

RootVals ==
    {Complex(Rat(a, RootDen), Rat(b, RootDen)) :
        a \in -RootMax..RootMax, b \in -RootMax..RootMax}
    \cup {Complex(NaN, NaN)}

\* compute_lsf(audio_data, sample_rate, order) with the outcomes of the two
\* library calls: the lines printed, the value returned and the line of the
\* return statement taken.
compute_lsf(order, lpc_coeffs, roots) ==
    LET p == Polynomial(lpc_coeffs)
        stable_roots == StableRoots(roots)
        lsf == [i \in 1..Len(stable_roots) |-> np_angle(stable_roots[i])]
    IN  IF \E i \in 1..Len(p) : isinf(p[i]) \/ isnan(p[i])
        THEN [lsf |-> <<>>, out |-> <<"LPC polynomial contains inf or NaN values">>,
              at |-> 17, p |-> p, nroots |-> 0]
        ELSE IF \E i \in 1..Len(roots) : c_isinf(roots[i]) \/ c_isnan(roots[i])
        THEN [lsf |-> <<>>, out |-> <<"LPC roots contain inf or NaN values">>,
              at |-> 23, p |-> p, nroots |-> Len(roots)]
        ELSE IF Len(stable_roots) = 0
        THEN [lsf |-> <<>>, out |-> <<>>, at |-> 27, p |-> p, nroots |-> Len(roots)]
        ELSE [lsf |-> np_sort(lsf), out |-> <<>>, at |-> 29, p |-> p,
              nroots |-> Len(roots)]

Orders == {DefaultOrder, LpcOrder}

InitLsf ==
    /\ fn = "compute_lsf"
    /\ arg \in {[order |-> n] : n \in Orders}
    /\ ret = Pending
    /\ prog = "none" /\ listing = <<>> /\ idx = 1 /\ status = "done"
    /\ log = <<>> /\ calls = <<>> /\ outputs = {} /\ env = "none"

\* lpc_coeffs = librosa.lpc(audio_data, order=12): the order argument is unused.
CallComputeLsf ==
    /\ fn = "compute_lsf" /\ ret = Pending
    /\ \E lpc_coeffs \in librosa_lpc(LpcOrder) :
       \E roots \in np_roots(Polynomial(lpc_coeffs), RootVals, 0..(LpcOrder + 1)) :
          ret' = Return(compute_lsf(arg.order, lpc_coeffs, roots))
    /\ UNCHANGED <<fn, arg, prog, listing, idx, status, log, calls, outputs, env>>

SpecLsf == InitLsf /\ [][CallComputeLsf]_vars

Sorted(s) == \A i \in 1..(Len(s) - 1) : Le(s[i], s[i + 1])

LsfReturned == fn = "compute_lsf" /\ ret # Pending /\ Len(ret.val.lsf) > 0

\* C6 (as stated): every non-empty result of compute_lsf is sorted ascending
\* and every value lies strictly inside (-pi, pi).
C6_LsfInOpenInterval ==
    LsfReturned =>
        /\ Sorted(ret.val.lsf)
        /\ \A i \in 1..Len(ret.val.lsf) :
              Lt(Neg(One), ret.val.lsf[i]) /\ Lt(ret.val.lsf[i], One)

\* C6 (amended): every non-empty result of compute_lsf is sorted ascending
\* and every value lies in the half-open interval (-pi, pi]; pi itself is
\* returned for a stable root on the negative real axis.
C6_LsfSortedHalfOpen ==
    LsfReturned =>
        /\ Sorted(ret.val.lsf)
        /\ \A i \in 1..Len(ret.val.lsf) :
              Lt(Neg(One), ret.val.lsf[i]) /\ Le(ret.val.lsf[i], One)

\* A result with a negative angle, an angle in between and the angle pi.
C6_Witness ==
    /\ LsfReturned
    /\ Len(ret.val.lsf) >= 3
    /\ Lt(ret.val.lsf[1], Zero)
    /\ Eq(ret.val.lsf[Len(ret.val.lsf)], One)

\* C10: the polynomial whose roots are taken is [1, -a_1, ..., -a_n] for the
\* order n the caller requested: n + 1 coefficients, at most n roots and at
\* most n LSF entries.
C10_PolynomialOfRequestedOrder ==
    (fn = "compute_lsf" /\ ret # Pending) =>
        /\ Len(ret.val.p) = arg.order + 1
        /\ ret.val.nroots <= arg.order
        /\ Len(ret.val.lsf) <= arg.order

(***************************************************************************)
(* pre_process_2.py: compute_cqcc (the normalisation of the cepstrum)      *)
(***************************************************************************)
\* np.min / np.max over all entries: NaN if any entry is NaN.
np_min(a) ==
    IF \E i \in 1..Len(a) : isnan(a[i]) THEN NaN
    ELSE a[CHOOSE i \in 1..Len(a) : \A j \in 1..Len(a) : Le(a[i], a[j])]

np_max(a) ==
    IF \E i \in 1..Len(a) : isnan(a[i]) THEN NaN
    ELSE a[CHOOSE i \in 1..Len(a) : \A j \in 1..Len(a) : Le(a[j], a[i])]

\* Mutant of compute_cqcc: the maximum is taken before the shift.
compute_cqcc_MaxBeforeShift(cqcc) ==
    LET lo == np_min(cqcc)
        hi == np_max(cqcc)
    IN  [i \in 1..Len(cqcc) |-> Div(Sub(cqcc[i], lo), hi)]

\* cqcc -= np.min(cqcc); cqcc /= np.max(cqcc), on the array that
\* librosa.feature.mfcc returned (flattened).
compute_cqcc(cqcc) ==
    LET lo == np_min(cqcc)
        shifted == [i \in 1..Len(cqcc) |-> Sub(cqcc[i], lo)]
        hi == np_max(shifted)
    IN  [i \in 1..Len(cqcc) |-> Div(shifted[i], hi)]

CepVals == {Rat(n, 1) : n \in -MaxCep..MaxCep}

InitCqcc ==
    /\ fn = "compute_cqcc"
    /\ arg \in {[cqcc |-> x] : x \in SeqsUpTo(CepVals, MaxCq) \ {<<>>}}
    /\ ret = Pending
    /\ prog = "none" /\ listing = <<>> /\ idx = 1 /\ status = "done"
    /\ log = <<>> /\ calls = <<>> /\ outputs = {} /\ env = "none"

CallComputeCqcc ==
    /\ fn = "compute_cqcc" /\ ret = Pending
    /\ ret' = Return(compute_cqcc(arg.cqcc))
    /\ UNCHANGED <<fn, arg, prog, listing, idx, status, log, calls, outputs, env>>

SpecCqcc == InitCqcc /\ [][CallComputeCqcc]_vars

NotConstant(a) == \E i, j \in 1..Len(a) : ~Eq(a[i], a[j])

\* C7: for every cepstral array x whose entries are not all equal, the array
\* returned has minimum 0 and maximum 1 and equals
\* (x - min(x)) / (max(x) - min(x)) element-wise.
C7_CqccNormalized ==
    (fn = "compute_cqcc" /\ ret # Pending /\ NotConstant(arg.cqcc)) =>
        LET x == arg.cqcc
            y == ret.val
            span == Sub(np_max(x), np_min(x))
        IN  /\ Len(y) = Len(x)
            /\ \E i \in 1..Len(y) : Eq(y[i], Zero)
            /\ \E i \in 1..Len(y) : Eq(y[i], One)
            /\ \A i \in 1..Len(y) :
                  /\ Le(Zero, y[i]) /\ Le(y[i], One)
                  /\ Eq(Mul(y[i], span), Sub(x[i], np_min(x)))

\* A normalised array with three different entries and a negative minimum.
C7_Witness ==
    /\ fn = "compute_cqcc" /\ ret # Pending
    /\ Len(arg.cqcc) = 3
    /\ Lt(np_min(arg.cqcc), Zero)
    /\ \A i, j \in 1..3 : i # j => ~Eq(arg.cqcc[i], arg.cqcc[j])

(***************************************************************************)
(* pre_process_1.py: extract_audio_features (the fundamental period)       *)
(***************************************************************************)
\* np.argmax(magnitudes, axis=0) for one frame: the first bin holding the
\* maximum.
np_argmax(column) ==
    CHOOSE i \in 1..Len(column) :
        /\ \A j \in 1..Len(column) : Le(column[j], column[i])
        /\ \A j \in 1..(i - 1) : Lt(column[j], column[i])

\* pitches[pitch_indices, np.arange(pitches.shape[1])]; a frame is the
\* column [pitches |-> ..., magnitudes |-> ...] of the two piptrack arrays.
fundamental_frequencies(frames) ==
    [t \in 1..Len(frames) |-> frames[t].pitches[np_argmax(frames[t].magnitudes)]]

IsFinitePeriod(x) == isfinite(x)

\* Mutant of IsPositivePeriod: zero periods are kept (>= 0).
IsNonNegativePeriod(x) == Le(Zero, x)

IsPositivePeriod(x) == Lt(Zero, x)

\* fundamental_period = 1 / f0, then the two boolean masks.
fundamental_period(frames) ==
    LET f0 == fundamental_frequencies(frames)
        period == [t \in 1..Len(f0) |-> Div(One, f0[t])]
    IN  SelectSeq(SelectSeq(period, IsFinitePeriod), IsPositivePeriod)

FreqVals == {Zero, Rat(2, 1), Rat(-1, 1), PInf, NaN}

FrameVals ==
    {[pitches |-> <<f1, f2>>, magnitudes |-> m] :
        f1 \in FreqVals, f2 \in FreqVals,
        m \in {<<Zero, One>>, <<One, Zero>>, <<One, One>>}}

InitPitch ==
    /\ fn = "extract_audio_features"
    /\ arg \in {[frames |-> x] : x \in SeqsUpTo(FrameVals, MaxFrames)}
    /\ ret = Pending
    /\ prog = "none" /\ listing = <<>> /\ idx = 1 /\ status = "done"
    /\ log = <<>> /\ calls = <<>> /\ outputs = {} /\ env = "none"

CallExtractAudioFeatures ==
    /\ fn = "extract_audio_features" /\ ret = Pending
    /\ ret' = Return(fundamental_period(arg.frames))
    /\ UNCHANGED <<fn, arg, prog, listing, idx, status, log, calls, outputs, env>>

SpecPitch == InitPitch /\ [][CallExtractAudioFeatures]_vars

\* s is t with entries dropped: the entries of s occur in t in the same order.
RECURSIVE IsSubsequence(_, _)
IsSubsequence(s, t) ==
    IF s = <<>> THEN TRUE
    ELSE IF t = <<>> THEN FALSE
    ELSE IF Head(s) = Head(t) THEN IsSubsequence(Tail(s), Tail(t))
    ELSE IsSubsequence(s, Tail(t))

\* The frame's selected frequency has a finite, strictly positive reciprocal.
Voiced(f) == isfinite(f) /\ Sign(f) > 0

\* C8: the fundamental_period returned holds only finite, strictly positive
\* values, is no longer than the number of frames, keeps the surviving
\* entries in frame order (dropped, never replaced) and is empty when every
\* candidate is rejected.
C8_FundamentalPeriod ==
    (fn = "extract_audio_features" /\ ret # Pending) =>
        LET f0 == fundamental_frequencies(arg.frames)
            kept == SelectSeq(f0, Voiced)
            y == ret.val
        IN  /\ \A i \in 1..Len(y) : isfinite(y[i]) /\ y[i].n > 0 /\ y[i].d > 0
            /\ Len(y) <= Len(arg.frames)
            /\ Len(y) = Len(kept)
            /\ \A i \in 1..Len(y) : Eq(Mul(y[i], kept[i]), One)
            /\ IsSubsequence(y, [t \in 1..Len(f0) |-> Recip(f0[t])])
            /\ ((\A t \in 1..Len(f0) : ~Voiced(f0[t])) => y = <<>>)

\* A frame with an infinite frequency (period 0) is dropped and a later
\* voiced frame is kept.
C8_Witness ==
    /\ fn = "extract_audio_features" /\ ret # Pending
    /\ Len(arg.frames) >= 2
    /\ fundamental_frequencies(arg.frames)[1] = PInf
    /\ Len(ret.val) = 1

(***************************************************************************)
(* File names and output paths (os.path.splitext, os.path.join)            *)
(***************************************************************************)
\* A file name is a sequence of tokens: "." is the dot, every other token a
\* non-empty run of characters without a dot.
Dot == "."

\* filename.endswith('.wav')
EndsWithWav(filename) ==
    /\ Len(filename) >= 2
    /\ filename[Len(filename) - 1] = Dot
    /\ filename[Len(filename)] = "wav"

\* os.path.splitext(filename)[0]: the name up to its last dot, unless only
\* dots precede that dot (leading dots are not an extension separator).
SplitExtRoot(filename) ==
    LET dots == {i \in 1..Len(filename) : filename[i] = Dot}
    IN  IF dots = {} THEN filename
        ELSE LET dotIndex == CHOOSE i \in dots : \A j \in dots : j <= i
             IN  IF \E i \in 1..(dotIndex - 1) : filename[i] # Dot
                 THEN SubSeq(filename, 1, dotIndex - 1)
                 ELSE filename

\* output_filename = os.path.splitext(filename)[0] + '.jpg'
\* output_path = os.path.join(output_directory, output_filename)
OutputPath(output_directory, filename) ==
    [dir |-> output_directory, name |-> SplitExtRoot(filename) \o <<Dot, "jpg">>]

\* turn('wav', 'wav-feature'); process_audio_directory('wav', 'wav_features')
OutputDirectory(p) == IF p = "turn" THEN "wav-feature" ELSE "wav_features"

(***************************************************************************)
(* What the libraries make of one input file.                              *)
(***************************************************************************)
BatchRootVals ==
    {Complex(Rat(-1, 2), Zero), Complex(Rat(2, 1), Zero), Complex(NaN, NaN)}

Undecodable ==
    [decodes |-> FALSE, samples |-> <<>>, lpc_coeffs |-> <<>>, roots |-> <<>>]

\* A clip that every stage accepts.
HealthyOutcomes ==
    {[decodes |-> TRUE, samples |-> <<One>>, lpc_coeffs |-> c, roots |-> r] :
        c \in {<<One>> \o [i \in 1..LpcOrder |-> Zero]},
        r \in {[i \in 1..(LpcOrder + 1) |-> Complex(Rat(-1, 2), Zero)]}}

\* Files that decode. librosa.lpc and np.roots are only reached by a
\* non-empty finite signal, and np.roots only by a finite polynomial.
Decoded(x, c, r) == [decodes |-> TRUE, samples |-> x, lpc_coeffs |-> c, roots |-> r]

Usable(x) == Len(x) > 0 /\ \A i \in 1..Len(x) : isfinite(x[i])

FinitePolynomial(c) == \A i \in 1..Len(c) : isfinite(c[i])

AnyOutcomes ==
    {Undecodable}
    \cup {Decoded(x, <<>>, <<>>) :
            x \in {y \in SeqsUpTo(SampleVals, MaxClipLen) : ~Usable(y)}}
    \cup {Decoded(x, c, <<>>) :
            x \in {y \in SeqsUpTo(SampleVals, MaxClipLen) : Usable(y)},
            c \in {d \in librosa_lpc(LpcOrder) : ~FinitePolynomial(d)}}
    \cup UNION {{Decoded(x, c, r) :
                    x \in {y \in SeqsUpTo(SampleVals, MaxClipLen) : Usable(y)},
                    r \in np_roots(Polynomial(c), BatchRootVals, {0, 1})} :
                c \in {d \in librosa_lpc(LpcOrder) : FinitePolynomial(d)}}

FileOutcomes(e) == IF e = "healthy" THEN HealthyOutcomes ELSE AnyOutcomes

(***************************************************************************)
(* pre_process_2.py: process_audio and turn                                *)
(***************************************************************************)
Call(f, r) == [fn |-> f, ret |-> r]

NonFinite(a) == \E i \in 1..Len(a) : isnan(a[i]) \/ isinf(a[i])

\* Mutant of process_audio: the lsf_result.size == 0 check is missing.
process_audio_NoLsfCheck(o) ==
    IF ~o.decodes
    THEN [state |-> "raised", val |-> "none", out |-> <<>>,
          calls |-> <<Call("librosa.load", "raised")>>]
    ELSE LET pre == pre_emphasis(o.samples, Rat(1, 2))
             lsf == compute_lsf(DefaultOrder, o.lpc_coeffs, o.roots)
         IN  IF pre.state = "raised"
             THEN [state |-> "raised", val |-> "none", out |-> <<>>,
                   calls |-> <<Call("librosa.load", "returned"),
                               Call("pre_emphasis", "raised")>>]
             ELSE IF NonFinite(pre.val)
             THEN [state |-> "returned", val |-> "None",
                   out |-> <<"Pre-emphasized audio contains NaN or inf values">>,
                   calls |-> <<Call("librosa.load", "returned"),
                               Call("pre_emphasis", "nonfinite")>>]
             ELSE [state |-> "returned", val |-> "bundle", out |-> lsf.out,
                   calls |-> <<Call("librosa.load", "returned"),
                               Call("pre_emphasis", "finite"),
                               Call("compute_lsf", [at |-> lsf.at, size |-> Len(lsf.lsf)]),
                               Call("compute_mfcc", "returned"),
                               Call("compute_lpc", "returned"),
                               Call("compute_cqcc", "returned")>>]

\* Mutant of process_audio: the NaN / inf check on the pre-emphasized
\* signal is missing.
process_audio_NoFiniteCheck(o) ==
    IF ~o.decodes
    THEN [state |-> "raised", val |-> "none", out |-> <<>>,
          calls |-> <<Call("librosa.load", "raised")>>]
    ELSE LET pre == pre_emphasis(o.samples, Rat(1, 2))
             lsf == compute_lsf(DefaultOrder, o.lpc_coeffs, o.roots)
             tag == IF NonFinite(pre.val) THEN "nonfinite" ELSE "finite"
         IN  IF pre.state = "raised"
             THEN [state |-> "raised", val |-> "none", out |-> <<>>,
                   calls |-> <<Call("librosa.load", "returned"),
                               Call("pre_emphasis", "raised")>>]
             ELSE IF Len(lsf.lsf) = 0
             THEN [state |-> "returned", val |-> "None",
                   out |-> lsf.out \o <<"LSF computation failed">>,
                   calls |-> <<Call("librosa.load", "returned"),
                               Call("pre_emphasis", tag),
                               Call("compute_lsf", [at |-> lsf.at, size |-> 0])>>]
             ELSE [state |-> "returned", val |-> "bundle", out |-> lsf.out,
                   calls |-> <<Call("librosa.load", "returned"),
                               Call("pre_emphasis", tag),
                               Call("compute_lsf", [at |-> lsf.at, size |-> Len(lsf.lsf)]),
                               Call("compute_mfcc", "returned"),
                               Call("compute_lpc", "returned"),
                               Call("compute_cqcc", "returned")>>]

\* process_audio(file_path) on a file with library outcomes o: how the call
\* ends, what it returns, the lines it prints and the calls it makes.
process_audio(o) ==
    IF ~o.decodes
    THEN [state |-> "raised", val |-> "none", out |-> <<>>,
          calls |-> <<Call("librosa.load", "raised")>>]
    ELSE LET pre == pre_emphasis(o.samples, Rat(1, 2))
             lsf == compute_lsf(DefaultOrder, o.lpc_coeffs, o.roots)
         IN  IF pre.state = "raised"
             THEN [state |-> "raised", val |-> "none", out |-> <<>>,
                   calls |-> <<Call("librosa.load", "returned"),
                               Call("pre_emphasis", "raised")>>]
             ELSE IF NonFinite(pre.val)
             THEN [state |-> "returned", val |-> "None",
                   out |-> <<"Pre-emphasized audio contains NaN or inf values">>,
                   calls |-> <<Call("librosa.load", "returned"),
                               Call("pre_emphasis", "nonfinite")>>]
             ELSE IF Len(lsf.lsf) = 0
             THEN [state |-> "returned", val |-> "None",
                   out |-> lsf.out \o <<"LSF computation failed">>,
                   calls |-> <<Call("librosa.load", "returned"),
                               Call("pre_emphasis", "finite"),
                               Call("compute_lsf", [at |-> lsf.at, size |-> 0])>>]
             ELSE [state |-> "returned", val |-> "bundle", out |-> lsf.out,
                   calls |-> <<Call("librosa.load", "returned"),
                               Call("pre_emphasis", "finite"),
                               Call("compute_lsf", [at |-> lsf.at, size |-> Len(lsf.lsf)]),
                               Call("compute_mfcc", "returned"),
                               Call("compute_lpc", "returned"),
                               Call("compute_cqcc", "returned")>>]

\* The records of one clip appended to log and calls.
Lines(clip, msgs) == [i \in 1..Len(msgs) |-> [clip |-> clip, msg |-> msgs[i]]]
Calls(clip, cs) == [i \in 1..Len(cs) |-> [clip |-> clip, fn |-> cs[i].fn, ret |-> cs[i].ret]]

LoopStatus(next) == IF next > Len(listing) THEN "done" ELSE "running"

\* One iteration of the for loop of turn.
TurnStep ==
    /\ fn = "batch" /\ prog = "turn" /\ status = "running"
    /\ LET filename == listing[idx]
       IN  IF ~EndsWithWav(filename)
           THEN /\ idx' = idx + 1
                /\ status' = LoopStatus(idx + 1)
                /\ UNCHANGED <<log, calls, outputs>>
           ELSE \E o \in FileOutcomes(env) :
                LET r == process_audio(o)
                    output_path == OutputPath(OutputDirectory(prog), filename)
                IN  IF r.state = "raised"
                    THEN /\ status' = "aborted"
                         /\ calls' = calls \o Calls(filename, r.calls)
                         /\ log' = log \o Lines(filename, r.out \o <<"Traceback">>)
                         /\ UNCHANGED <<idx, outputs>>
                    ELSE IF r.val = "None"
                    THEN /\ calls' = calls \o Calls(filename,
                                r.calls \o <<Call("process_audio", "None")>>)
                         /\ log' = log \o Lines(filename, r.out \o <<"Skipping">>)
                         /\ idx' = idx + 1
                         /\ status' = LoopStatus(idx + 1)
                         /\ UNCHANGED outputs
                    ELSE /\ calls' = calls \o Calls(filename,
                                r.calls \o <<Call("process_audio", "bundle"),
                                             Call("save_spectrograms", "returned")>>)
                         /\ outputs' = outputs \cup {[path |-> output_path, clip |-> filename]}
                         /\ log' = log \o Lines(filename, r.out \o <<"Saved spectrograms">>)
                         /\ idx' = idx + 1
                         /\ status' = LoopStatus(idx + 1)
    /\ UNCHANGED <<fn, arg, ret, prog, listing, env>>

(***************************************************************************)
(* pre_process_1.py: process_audio_directory                               *)
(***************************************************************************)
\* One iteration of the for loop of process_audio_directory: the body runs
\* inside try / except Exception.
DirectoryStep ==
    /\ fn = "batch" /\ prog = "process_audio_directory" /\ status = "running"
    /\ LET filename == listing[idx]
       IN  IF ~EndsWithWav(filename)
           THEN UNCHANGED <<log, calls, outputs>>
           ELSE \E o \in FileOutcomes(env) :
                LET output_path == OutputPath(OutputDirectory(prog), filename)
                IN  IF ~o.decodes
                    THEN /\ calls' = calls \o Calls(filename,
                                <<Call("librosa.load", "raised")>>)
                         /\ log' = log \o Lines(filename, <<"Error processing">>)
                         /\ UNCHANGED outputs
                    ELSE /\ calls' = calls \o Calls(filename,
                                <<Call("librosa.load", "returned"),
                                  Call("extract_audio_features", "returned"),
                                  Call("visualize_and_save_features", "returned")>>)
                         /\ outputs' = outputs \cup {[path |-> output_path, clip |-> filename]}
                         /\ log' = log \o Lines(filename, <<"Successfully processed">>)
    /\ idx' = idx + 1
    /\ status' = LoopStatus(idx + 1)
    /\ UNCHANGED <<fn, arg, ret, prog, listing, env>>

Programs == {"turn", "process_audio_directory"}

Distinct(s) == \A i, j \in 1..Len(s) : i # j => s[i] # s[j]

\* The input directory of the batch model.
ClipNames == {<<"x", Dot, "wav">>, <<"y", Dot, "wav">>, <<"notes", Dot, "txt">>}

InitBatch(names, lengths, e) ==
    /\ fn = "batch" /\ arg = Pending /\ ret = Pending
    /\ prog \in Programs
    /\ listing \in {l \in UNION {[1..m -> names] : m \in lengths} : Distinct(l)}
    /\ idx = 1
    /\ status = IF listing = <<>> THEN "done" ELSE "running"
    /\ log = <<>> /\ calls = <<>> /\ outputs = {}
    /\ env = e

Init == InitBatch(ClipNames, 0..MaxClips, "any")

Next == TurnStep \/ DirectoryStep

Spec == Init /\ [][Next]_vars

\* The output-path model: every file decodes and passes every stage.
Tokens == {Dot, "wav", "x"}

FileNames == UNION {[1..m -> Tokens] : m \in 1..MaxName}

InitPaths == InitBatch(FileNames, {2}, "healthy")

SpecPaths == InitPaths /\ [][Next]_vars

(***************************************************************************)
(* Properties of the batch loops                                           *)
(***************************************************************************)
Position(clip) == CHOOSE i \in 1..Len(listing) : listing[i] = clip

Invoked(clip, f) == \E i \in 1..Len(calls) : calls[i].clip = clip /\ calls[i].fn = f

Printed(clip, m) == \E i \in 1..Len(log) : log[i].clip = clip /\ log[i].msg = m

Written(clip) == \E w \in outputs : w.clip = clip

\* compute_lsf returned an empty result for the clip.
LsfEmpty(clip) ==
    \E i \in 1..Len(calls) :
        calls[i].clip = clip /\ calls[i].fn = "compute_lsf" /\ calls[i].ret.size = 0

\* The pre-emphasized signal of the clip held a NaN or an infinity.
PreEmphasisNonFinite(clip) ==
    \E i \in 1..Len(calls) :
        calls[i].clip = clip /\ calls[i].fn = "pre_emphasis" /\ calls[i].ret = "nonfinite"

LsfReturnedAt(clip, line) ==
    \E i \in 1..Len(calls) :
        calls[i].clip = clip /\ calls[i].fn = "compute_lsf" /\ calls[i].ret.at = line

\* The failure kind of the error taxonomy behind a skipped clip.
KindOf(clip) ==
    IF PreEmphasisNonFinite(clip) THEN "MALFORMED_SIGNAL"
    ELSE IF LsfReturnedAt(clip, 17) THEN "DEGENERATE_MODEL"
    ELSE IF LsfReturnedAt(clip, 23) THEN "DEGENERATE_ROOTS"
    ELSE IF LsfReturnedAt(clip, 27) THEN "NO_STABLE_ROOTS"
    ELSE "none"

WavClips == {listing[i] : i \in {j \in 1..Len(listing) : EndsWithWav(listing[j])}}

\* C1: a clip whose processing fails, the loader raising included, never
\* aborts the batch: when the program ends every .wav clip was attempted and
\* either has its output artifact or is reported as skipped.
C1_FailureNeverAbortsBatch ==
    (fn = "batch" /\ status \in {"done", "aborted"}) =>
        \A clip \in WavClips :
            /\ Invoked(clip, "librosa.load")
            /\ \/ Written(clip)
               \/ Printed(clip, "Skipping")
               \/ Printed(clip, "Error processing")

\* C2: if compute_lsf returns an empty result for a clip, process_audio
\* returns no bundle, none of MFCC / LPC / CQCC is computed, save_spectrograms
\* is never called, no artifact is written, and turn goes on to the next clip.
C2_EmptyLsfSkipsClip ==
    (fn = "batch" /\ prog = "turn") =>
        \A clip \in WavClips :
            LsfEmpty(clip) =>
                /\ \E i \in 1..Len(calls) :
                      /\ calls[i].clip = clip
                      /\ calls[i].fn = "process_audio"
                      /\ calls[i].ret = "None"
                /\ ~Invoked(clip, "compute_mfcc")
                /\ ~Invoked(clip, "compute_lpc")
                /\ ~Invoked(clip, "compute_cqcc")
                /\ ~Invoked(clip, "save_spectrograms")
                /\ ~Written(clip)
                /\ idx > Position(clip)

\* A clip without stable roots was skipped and the next clip was saved.
C2_Witness ==
    /\ fn = "batch" /\ prog = "turn" /\ Len(listing) = 2
    /\ LsfReturnedAt(listing[1], 27)
    /\ Written(listing[2])

\* C3: for every skipped clip the printed report names the causal failure
\* kind: some line printed for the clip is printed for clips of that kind only.
C3_ReportNamesFailureKind ==
    (fn = "batch" /\ prog = "turn") =>
        \A clip \in {c \in WavClips : KindOf(c) # "none"} :
            \E i \in 1..Len(log) :
                /\ log[i].clip = clip
                /\ \A j \in 1..Len(log) :
                      log[j].msg = log[i].msg => KindOf(log[j].clip) = KindOf(clip)

\* C4: if the pre-emphasized signal holds a NaN or an infinity, compute_lsf,
\* compute_mfcc, compute_lpc and compute_cqcc are never invoked for the clip
\* and process_audio returns no bundle.
C4_NonFiniteSignalStopsPipeline ==
    (fn = "batch" /\ prog = "turn") =>
        \A clip \in WavClips :
            PreEmphasisNonFinite(clip) =>
                /\ ~Invoked(clip, "compute_lsf")
                /\ ~Invoked(clip, "compute_mfcc")
                /\ ~Invoked(clip, "compute_lpc")
                /\ ~Invoked(clip, "compute_cqcc")
                /\ \E i \in 1..Len(calls) :
                      /\ calls[i].clip = clip
                      /\ calls[i].fn = "process_audio"
                      /\ calls[i].ret = "None"

\* A clip with a non-finite pre-emphasized signal was skipped after another
\* clip had gone through the whole pipeline.
C4_Witness ==
    /\ fn = "batch" /\ prog = "turn" /\ Len(listing) = 2
    /\ Written(listing[1])
    /\ PreEmphasisNonFinite(listing[2])
    /\ Printed(listing[2], "Skipping")

\* C9: two clips with distinct file names never get the same output path, so
\* no artifact is written by two clips.
C9_DistinctOutputPaths ==
    fn = "batch" =>
        \A w1, w2 \in outputs : w1.clip # w2.clip => w1.path # w2.path

====
